---- MODULE Spec2Model ----
(***************************************************************************)
(* A model of clarktrimble/objsto: a client of an S3-compatible object     *)
(* store with two operations, Get and Put, each building a SigV4-signed    *)
(* request (objsto.go buildRequest, hashPayload, signRequest) and sending  *)
(* it through an injected transport (sendRequest, parseS3Error).           *)
(*                                                                         *)
(* Strings are TLA+ strings and fmt.Sprintf is string concatenation.       *)
(* SHA-256 and HMAC-SHA256 are symbolic and collision free: the digest of  *)
(* x is a string that spells out x, so two digests are equal exactly when  *)
(* their inputs are.  Byte streams are sequences; an error value is the    *)
(* sequence of the parts of its message (<<>> is nil), and wrapping an     *)
(* error prepends parts to it.                                             *)
(***************************************************************************)
EXTENDS Integers, Sequences, FiniteSets, TLC

\* ---------------------------------------------------------------- bounds

\* Callers running concurrently in SpecConc.
NumCallers == 2
\* Longest Put body, in bytes.
MaxBody == 2

Callers == 1..NumCallers

\* ------------------------------------------------------------- helpers

RECURSIVE Flat(_)
\* []byte -> string: the bytes of a sequence, in order.
Flat(s) == IF s = <<>> THEN "" ELSE Head(s) \o Flat(Tail(s))

Digit(d) ==
    CASE d = 0 -> "0" [] d = 1 -> "1" [] d = 2 -> "2" [] d = 3 -> "3"
      [] d = 4 -> "4" [] d = 5 -> "5" [] d = 6 -> "6" [] d = 7 -> "7"
      [] d = 8 -> "8" [] d = 9 -> "9"

RECURSIVE Itoa(_)
\* The %d verb of fmt, for n >= 0.
Itoa(n) == IF n < 10 THEN Digit(n) ELSE Itoa(n \div 10) \o Digit(n % 10)

\* The %q verb of fmt.
Quote(s) == "\"" \o s \o "\""

\* ---------------------------------------------------------------- errors

nil == <<>>

\* errors.Errorf: a new error whose message is the given parts.
Errorf(parts) == parts

\* errors.Wrap / errors.Wrapf: "<parts>: <cause>".
Wrap(cause, parts) == parts \o <<": ">> \o cause

\* Whether the message of e has s as one of its parts.
Contains(e, s) == \E i \in DOMAIN e : e[i] = s

\* Whether e wraps cause: its message ends with the cause's.
Wraps(e, cause) ==
    /\ Len(e) > Len(cause)
    /\ SubSeq(e, Len(e) - Len(cause) + 1, Len(e)) = cause

\* -------------------------------------------------------------- hashing

\* hex.EncodeToString of a symbolic digest.
HexEncode(b) == "hex(" \o b \o ")"

\* sha256.New, Write, Sum: symbolic digest of a byte string.
Sha256Sum(data) == "sha256(" \o data \o ")"

sha256Hash(data) == HexEncode(Sha256Sum(data))

hmacSHA256(key, data) == "hmac(" \o key \o "," \o data \o ")"

getSignatureKey(secret, date, region, svc) ==
    LET kDate == hmacSHA256("AWS4" \o secret, date)
        kRegion == hmacSHA256(kDate, region)
        kService == hmacSHA256(kRegion, svc)
        kSigning == hmacSHA256(kService, "aws4_request")
    IN  kSigning

\* ------------------------------------------------------------- signing

service == "s3"

\* time.Time.Format("20060102T150405Z") and Format("20060102"), of a UTC time
\* held as its date and its clock digits.
FormatAmzDate(t) == t.date \o "T" \o t.clock \o "Z"
FormatDateStamp(t) == t.date

signedHeaders == "host;x-amz-content-sha256;x-amz-date"

canonicalRequest(method, host, path, payloadHash, amzDate) ==
    LET canonicalHeaders ==
            "host:" \o host \o "\nx-amz-content-sha256:" \o payloadHash
                \o "\nx-amz-date:" \o amzDate \o "\n"
    IN  method \o "\n" \o path \o "\n\n" \o canonicalHeaders \o "\n"
            \o signedHeaders \o "\n" \o payloadHash

signRequest(method, region, host, path, accessKey, secretKey, payloadHash, t) ==
    LET amzDate == FormatAmzDate(t)
        dateStamp == FormatDateStamp(t)
        credentialScope ==
            dateStamp \o "/" \o region \o "/" \o service \o "/aws4_request"
        stringToSign ==
            "AWS4-HMAC-SHA256\n" \o amzDate \o "\n" \o credentialScope \o "\n"
                \o sha256Hash(canonicalRequest(method, host, path, payloadHash, amzDate))
        signingKey == getSignatureKey(secretKey, dateStamp, region, service)
        signature == HexEncode(hmacSHA256(signingKey, stringToSign))
        authHeader ==
            "AWS4-HMAC-SHA256 Credential=" \o accessKey \o "/" \o credentialScope
                \o ", SignedHeaders=" \o signedHeaders \o ", Signature=" \o signature
    IN  [k \in {"Authorization", "x-amz-date", "x-amz-content-sha256"} |->
            CASE k = "Authorization" -> authHeader
              [] k = "x-amz-date" -> amzDate
              [] k = "x-amz-content-sha256" -> payloadHash]

\* http.Header.Set stores a value under the canonical form of its key.
CanonicalMIMEHeaderKey(k) ==
    CASE k = "x-amz-date" -> "X-Amz-Date"
      [] k = "x-amz-content-sha256" -> "X-Amz-Content-Sha256"
      [] OTHER -> k

\* http.Header.Get of a request.
HeaderGet(h, k) ==
    IF CanonicalMIMEHeaderKey(k) \in DOMAIN h THEN h[CanonicalMIMEHeaderKey(k)] ELSE ""

\* ------------------------------------------------- the caller's Put body

\* An io.ReadSeeker: its bytes, its read position, whether Read or Seek
\* fails, and how often it has been read to its end and repositioned.
Bytes == {"a", "b"}

RECURSIVE SeqsUpTo(_)
SeqsUpTo(n) ==
    IF n = 0 THEN {<<>>}
    ELSE SeqsUpTo(n - 1) \cup
         {Append(s, b) : s \in {q \in SeqsUpTo(n - 1) : Len(q) = n - 1}, b \in Bytes}

Stream(data, pos, failRead, failSeek) ==
    [isNil |-> FALSE, data |-> data, pos |-> pos, failRead |-> failRead,
     failSeek |-> failSeek, nReads |-> 0, nSeeks |-> 0]

\* The nil io.ReadSeeker (what Get passes, and what Put may be given).
NilBody ==
    [isNil |-> TRUE, data |-> <<>>, pos |-> 0, failRead |-> FALSE,
     failSeek |-> FALSE, nReads |-> 0, nSeeks |-> 0]

ReadError == <<"read: input/output error">>
SeekError == <<"seek: illegal seek">>

\* Reading a stream from its position to EOF (io.Copy, io.ReadAll, or the
\* transport writing the body out): the bytes read, their count, the error and
\* the stream afterwards.  A failing stream fails on its first Read.
ReadToEOF(b) ==
    IF b.failRead
    THEN [bytes |-> <<>>, n |-> 0, err |-> ReadError,
          body |-> [b EXCEPT !.nReads = @ + 1]]
    ELSE [bytes |-> SubSeq(b.data, b.pos + 1, Len(b.data)),
          n |-> Len(b.data) - b.pos, err |-> nil,
          body |-> [b EXCEPT !.pos = Len(b.data), !.nReads = @ + 1]]

\* A Seek that reports success without moving the read position.
SeekStartKeepsPosition(b) ==
    IF b.failSeek
    THEN [err |-> SeekError, body |-> [b EXCEPT !.nSeeks = @ + 1]]
    ELSE [err |-> nil, body |-> [b EXCEPT !.nSeeks = @ + 1]]

\* body.Seek(0, io.SeekStart).
SeekStart(b) ==
    IF b.failSeek
    THEN [err |-> SeekError, body |-> [b EXCEPT !.nSeeks = @ + 1]]
    ELSE [err |-> nil, body |-> [b EXCEPT !.pos = 0, !.nSeeks = @ + 1]]

\* hashPayload with the error of Seek dropped.
hashPayloadIgnoringSeek(body) ==
    IF body.isNil
    THEN [hash |-> HexEncode(Sha256Sum("")), size |-> 0, err |-> nil, body |-> body]
    ELSE LET c == ReadToEOF(body) IN
         IF c.err # nil
         THEN [hash |-> "", size |-> c.n,
               err |-> Wrap(c.err, <<"failed to hash body">>), body |-> c.body]
         ELSE [hash |-> HexEncode(Sha256Sum(Flat(c.bytes))), size |-> c.n,
               err |-> nil, body |-> SeekStart(c.body).body]

\* hashPayload(body): the digest, the byte count, the error and the stream
\* afterwards.
hashPayload(body) ==
    IF body.isNil
    THEN [hash |-> HexEncode(Sha256Sum("")), size |-> 0, err |-> nil, body |-> body]
    ELSE LET c == ReadToEOF(body) IN
         IF c.err # nil
         THEN [hash |-> "", size |-> c.n,
               err |-> Wrap(c.err, <<"failed to hash body">>), body |-> c.body]
         ELSE LET s == SeekStart(c.body) IN
              IF s.err # nil
              THEN [hash |-> "", size |-> c.n,
                    err |-> Wrap(s.err, <<"failed to seek body">>), body |-> s.body]
              ELSE [hash |-> HexEncode(Sha256Sum(Flat(c.bytes))), size |-> c.n,
                    err |-> nil, body |-> s.body]

\* ------------------------------------------------- the client (Config.New)

\* Config as the tests and the demo fill it in.
Config ==
    [Region |-> "test-region", Scheme |-> "https", Host |-> "test-host",
     Bucket |-> "test-bucket", AccessKey |-> "test-access-key",
     SecretKey |-> "test-secret-key"]

New(cfg) ==
    [region |-> cfg.Region, scheme |-> cfg.Scheme, host |-> cfg.Host,
     bucket |-> cfg.Bucket, accessKey |-> cfg.AccessKey, secretKey |-> cfg.SecretKey]

\* ------------------------------------------------------------ the logger

\* One key/value pair of one Logger call.
LogKV(level, msg, key, val) == [level |-> level, msg |-> msg, key |-> key, val |-> val]

\* A header map passed as one value: its members, one entry each.
LogHeader(level, msg, key, h) ==
    {LogKV(level, msg, key \o "[" \o k \o "]", h[k]) : k \in DOMAIN h}

\* time.Time as the logger renders it.
TimeString(t) == t.date \o " " \o t.clock \o " +0000 UTC"

\* --------------------------------------------------------- buildRequest

EmptyHeader == [k \in {} |-> ""]

\* The zero *http.Request (nil).
NoRequest ==
    [method |-> "", url |-> "", host |-> "", header |-> EmptyHeader,
     contentLength |-> 0, hasBody |-> FALSE]

\* Object keys url.Parse rejects (an invalid percent escape), so that
\* http.NewRequestWithContext fails.
InvalidURLObjects == {"a%zz"}
UrlError == <<"parse: invalid URL escape">>

\* http.NewRequestWithContext(ctx, method, uri, pyld), for a uri that parses.
NewRequest(method, uri, host, pyld) ==
    [method |-> method, url |-> uri, host |-> host, header |-> EmptyHeader,
     contentLength |-> 0, hasBody |-> ~pyld.isNil]

\* for k, v := range headers { req.Header.Set(k, v) }
SetHeaders(h, m) ==
    [ck \in DOMAIN h \cup {CanonicalMIMEHeaderKey(k) : k \in DOMAIN m} |->
        IF \E k \in DOMAIN m : CanonicalMIMEHeaderKey(k) = ck
        THEN m[CHOOSE k \in DOMAIN m : CanonicalMIMEHeaderKey(k) = ck]
        ELSE h[ck]]

\* The "signing request" Debug call with the secret key beside the access key.
SigningLogWithSecret(c, path, t) ==
    {LogKV("debug", "signing request", "region", c.region),
     LogKV("debug", "signing request", "host", c.host),
     LogKV("debug", "signing request", "path", path),
     LogKV("debug", "signing request", "access_key", c.accessKey),
     LogKV("debug", "signing request", "secret_key", c.secretKey),
     LogKV("debug", "signing request", "now", TimeString(t))}

\* The values of the "signing request" Debug call.
SigningLog(c, path, t) ==
    {LogKV("debug", "signing request", "region", c.region),
     LogKV("debug", "signing request", "host", c.host),
     LogKV("debug", "signing request", "path", path),
     LogKV("debug", "signing request", "access_key", c.accessKey),
     LogKV("debug", "signing request", "now", TimeString(t))}

\* The values of the "signed request" Debug call.
SignedLog(req) ==
    {LogKV("debug", "signed request", "url", req.url),
     LogKV("debug", "signed request", "host", req.host)}
        \cup LogHeader("debug", "signed request", "headers", req.header)

\* buildRequest below its check of the object key: the request is created,
\* the payload hashed, the request signed.
buildSigned(c, method, object, pyld, t) ==
    LET path == "/" \o c.bucket \o "/" \o object
        uri == c.scheme \o "://" \o c.host \o path
    IN
    IF object \in InvalidURLObjects
    THEN [req |-> NoRequest,
          err |-> Wrap(UrlError, <<"failed to create request to ", Quote(uri)>>),
          body |-> pyld, logged |-> {}]
    ELSE
    LET created == NewRequest(method, uri, c.host, pyld)
        h == hashPayload(pyld)
    IN
    IF h.err # nil
    THEN [req |-> created, err |-> h.err, body |-> h.body,
          logged |-> SigningLog(c, path, t)]
    ELSE
    LET headers == signRequest(method, c.region, c.host, path, c.accessKey,
                               c.secretKey, h.hash, t)
        signed == [created EXCEPT !.contentLength = h.size,
                                  !.header = SetHeaders(@, headers)]
    IN  [req |-> signed, err |-> nil, body |-> h.body,
         logged |-> SigningLog(c, path, t) \cup SignedLog(signed)]

BlankError == Errorf(<<"object cannot be blank">>)

\* buildRequest with the object key checked after the request is built.
buildRequestChecksLate(c, method, object, pyld, t) ==
    LET b == buildSigned(c, method, object, pyld, t) IN
    IF object = "" THEN [b EXCEPT !.req = NoRequest, !.err = BlankError] ELSE b

\* buildRequest(ctx, method, object, pyld) at time t: the request, the error,
\* the payload stream afterwards and what was logged.
buildRequest(c, method, object, pyld, t) ==
    IF object = ""
    THEN [req |-> NoRequest, err |-> BlankError, body |-> pyld, logged |-> {}]
    ELSE buildSigned(c, method, object, pyld, t)

\* ------------------------------------------------------ response bodies

\* A response body is a sequence of XML tokens, each standing for n bytes:
\* "open" <name>, "close" </name>, "elem" <name>text</name>, "text" character
\* data, and "cut" the leading bytes of a token the read limit fell inside.
Open(name) == [k |-> "open", name |-> name, text |-> "", n |-> Len(name) + 2]
Close(name) == [k |-> "close", name |-> name, text |-> "", n |-> Len(name) + 3]
Elem(name, text) ==
    [k |-> "elem", name |-> name, text |-> text, n |-> 2 * Len(name) + 5 + Len(text)]
Text(text) == [k |-> "text", name |-> "", text |-> text, n |-> Len(text)]
\* A token whose text stands for n bytes of it.
Sized(tok, n) == [tok EXCEPT !.n = n]

\* string(bodyBytes) of one token.
Show(t) ==
    CASE t.k = "open" -> "<" \o t.name \o ">"
      [] t.k = "close" -> "</" \o t.name \o ">"
      [] t.k = "elem" -> "<" \o t.name \o ">" \o t.text \o "</" \o t.name \o ">"
      [] OTHER -> t.text

RECURSIVE BodyString(_)
BodyString(toks) ==
    IF toks = <<>> THEN "" ELSE Show(Head(toks)) \o BodyString(Tail(toks))

RECURSIVE ByteLen(_)
ByteLen(toks) == IF toks = <<>> THEN 0 ELSE Head(toks).n + ByteLen(Tail(toks))

\* 1024*4, the limit of the reader parseS3Error reads the body through.
ReadLimit == 4096

\* The first k bytes of a token longer than k.
CutTok(t, k) ==
    [k |-> IF t.k = "text" THEN "text" ELSE "cut", name |-> t.name,
     text |-> Show(t) \o "~", n |-> k]

RECURSIVE LimitRead(_, _)
\* io.ReadAll(io.LimitReader(body, limit)).
LimitRead(toks, limit) ==
    IF toks = <<>> \/ limit = 0 THEN <<>>
    ELSE IF Head(toks).n <= limit
         THEN <<Head(toks)>> \o LimitRead(Tail(toks), limit - Head(toks).n)
         ELSE <<CutTok(Head(toks), limit)>>

s3Error == [Code |-> "", Message |-> "", RequestID |-> ""]

\* The element name each field of s3Error is tagged with.
SetField(v, name, text) ==
    CASE name = "Code" -> [v EXCEPT !.Code = text]
      [] name = "Message" -> [v EXCEPT !.Message = text]
      [] name = "RequestId" -> [v EXCEPT !.RequestID = text]
      [] OTHER -> v

RECURSIVE UnmarshalChildren(_, _, _)
\* The tokens below the root element <root>: a child element sets the field
\* tagged with its name and any other child is skipped, character data is
\* ignored, </root> ends the value; the input ending first, a mismatched end
\* tag or a broken token is a syntax error.
UnmarshalChildren(toks, root, v) ==
    IF toks = <<>> THEN [ok |-> FALSE, v |-> v]
    ELSE LET t == Head(toks) IN
         CASE t.k = "text" -> UnmarshalChildren(Tail(toks), root, v)
           [] t.k = "elem" ->
                UnmarshalChildren(Tail(toks), root, SetField(v, t.name, t.text))
           [] t.k = "close" -> [ok |-> t.name = root, v |-> v]
           [] OTHER -> [ok |-> FALSE, v |-> v]

RECURSIVE xmlUnmarshal(_)
\* xml.Unmarshal(bodyBytes, &s3Err): s3Error has no XMLName field, so the first
\* element of the input is taken as the value whatever its name; character
\* data before it is skipped and what follows its end tag is not read.
xmlUnmarshal(toks) ==
    IF toks = <<>> THEN [ok |-> FALSE, v |-> s3Error]
    ELSE LET t == Head(toks) IN
         CASE t.k = "text" -> xmlUnmarshal(Tail(toks))
           [] t.k = "open" -> UnmarshalChildren(Tail(toks), t.name, s3Error)
           [] t.k = "elem" -> [ok |-> TRUE, v |-> s3Error]
           [] OTHER -> [ok |-> FALSE, v |-> s3Error]

\* ------------------------------------------------------------ responses

\* *http.Response: status, headers (as %s prints them) and the body stream:
\* its bytes, how many of them have been read, and how often it was closed.
Response(status, header, data) ==
    [isNil |-> FALSE, status |-> status, header |-> header,
     body |-> [data |-> data, nread |-> 0, closes |-> 0]]

NoResponse ==
    [isNil |-> TRUE, status |-> 0, header |-> "",
     body |-> [data |-> <<>>, nread |-> 0, closes |-> 0]]

\* resp.Body.Close()
CloseBody(resp) == [resp EXCEPT !.body.closes = @ + 1]

\* The generic error with the response headers added to it.
HttpErrorWithHeaders(resp, bodyBytes) ==
    Errorf(<<"http error, status: ", Itoa(resp.status), ", body: ",
             BodyString(bodyBytes), ", headers: ", resp.header>>)

\* The error parseS3Error returns when the body does not unmarshal.
HttpError(resp, bodyBytes) ==
    Errorf(<<"http error, status: ", Itoa(resp.status), ", body: ",
             BodyString(bodyBytes)>>)

\* The error parseS3Error returns when the body unmarshals.
S3ErrorOf(resp, s3Err) ==
    Errorf(<<"s3 error, code: ", s3Err.Code, ", request_id: ", s3Err.RequestID,
             ", message: ", s3Err.Message, ", headers: ", resp.header>>)

\* parseS3Error(resp): the error, and the response with its body read.
parseS3Error(resp) ==
    LET bodyBytes == LimitRead(resp.body.data, ReadLimit)
        u == xmlUnmarshal(bodyBytes)
        read == [resp EXCEPT !.body.nread = ByteLen(bodyBytes)]
    IN  [err |-> IF ~u.ok THEN HttpError(resp, bodyBytes) ELSE S3ErrorOf(resp, u.v),
         resp |-> read]

\* What c.client.Do(req) returns: an error and no response, or a response.
DoError(cause) == [err |-> cause, resp |-> NoResponse]
DoResponse(resp) == [err |-> nil, resp |-> resp]

\* resp.StatusCode < 200 || resp.StatusCode >= 300
IsFailure(status) == status < 200 \/ status >= 300

\* The transport's error handed back as it came.
TransportFailureBare(req, cause) == cause

\* The error sendRequest returns when Do fails.
TransportFailure(req, cause) == Wrap(cause, <<"failed request to ", Quote(req.url)>>)

\* sendRequest from the return of Do on: the response and error it returns
\* and what it logs.
sendRequest(req, out, elapsed) ==
    IF out.err # nil
    THEN [resp |-> out.resp,
          err |-> TransportFailure(req, out.err),
          logged |-> {}]
    ELSE IF IsFailure(out.resp.status)
    THEN LET r == parseS3Error(out.resp) IN
         [resp |-> CloseBody(r.resp), err |-> r.err, logged |-> {}]
    ELSE [resp |-> out.resp, err |-> nil,
          logged |-> {LogKV("info", "received response", "status",
                            Itoa(out.resp.status)),
                      LogKV("info", "received response", "elapsed", elapsed)}]

\* Get closing the response body as Put does.
GetReturnClosing(sr) ==
    [reader |-> IF sr.err # nil THEN "nil" ELSE "resp.Body",
     err |-> sr.err,
     resp |-> IF sr.err # nil THEN sr.resp ELSE CloseBody(sr.resp)]

\* Get, from the return of sendRequest on.
GetReturn(sr) ==
    [reader |-> IF sr.err # nil THEN "nil" ELSE "resp.Body",
     err |-> sr.err, resp |-> sr.resp]

\* Put, from the return of sendRequest on.
PutReturn(sr) ==
    [reader |-> "nil", err |-> sr.err,
     resp |-> IF sr.err # nil THEN sr.resp ELSE CloseBody(sr.resp)]

\* ---------------------------------------------------------------- state

VARIABLES
    client,     \* the *Client the callers share
    pc,         \* per caller: "idle", "build", "send", "recv", "done"
    arg,        \* per caller: the operation called and its arguments
    body,       \* per caller: the caller's body stream, as it is now
    now,        \* per caller: the time.Now().UTC() of buildRequest
    req,        \* per caller: the request buildRequest returned
    wire,       \* per caller: what the transport was handed by Do
    out,        \* per caller: what Do returned
    resp,       \* per caller: the response, as it is now
    err,        \* per caller: the error Get or Put returned
    reader,     \* per caller: the reader Get returned
    doCalls,    \* per caller: the calls of the transport's Do
    log         \* every key/value pair passed to the logger

vars == <<client, pc, arg, body, now, req, wire, out, resp, err, reader, doCalls, log>>

\* ---------------------------------------------------------------- inputs

ObjectKeys == {"", "test-object.txt", "a%zz"}

PutBodies ==
    {NilBody} \cup
    {Stream(d, pos, fr, fs) :
        d \in SeqsUpTo(MaxBody), pos \in 0..MaxBody, fr \in BOOLEAN, fs \in BOOLEAN}

\* A stream's position lies within its bytes.
ValidBodies(bodies) == {b \in bodies : b.pos <= Len(b.data)}

NoTime == [date |-> "", clock |-> ""]
Times == {[date |-> "20260102", clock |-> "150405"],
          [date |-> "20260103", clock |-> "000000"]}

Elapsed == {"3ms"}

S3ErrorBody ==
    <<Open("Error"), Elem("Code", "NoSuchKey"), Elem("Message", "gone"),
      Elem("RequestId", "req-1"), Close("Error")>>

RespBodies ==
    { <<>>,
      <<Text("test content")>>,
      S3ErrorBody,
      \* well-formed XML of another shape
      <<Open("html"), Elem("title", "502 Bad Gateway"), Close("html")>>,
      \* an error document the server cut short
      <<Open("Error"), Elem("Code", "NoSuchKey")>>,
      \* an error document longer than the read limit
      <<Open("Error"), Elem("Code", "SlowDown"), Elem("RequestId", "req-2"),
        Sized(Elem("Message", "slow down ..."), 5000), Close("Error")>>,
      \* an error document followed by padding beyond the read limit
      S3ErrorBody \o <<Sized(Text("    ..."), 5000)>> }

RespHeaders == {"map[]", "map[Server:[garage]]"}

Statuses == {199, 200, 299, 300, 404}

TransportError == <<"dial tcp: i/o timeout">>

Outcomes ==
    {DoError(TransportError)} \cup
    {DoResponse(Response(st, h, d)) :
        st \in Statuses, h \in RespHeaders, d \in RespBodies}

\* The inputs of the concurrent specification.
ConcObjectKeys == {"", "test-object.txt"}
ConcPutBodies ==
    {Stream(<<"a", "b">>, 1, FALSE, FALSE), Stream(<<"a">>, 0, TRUE, FALSE)}
ConcOutcomes ==
    {DoError(TransportError),
     DoResponse(Response(200, "map[]", <<Text("test content")>>)),
     DoResponse(Response(404, "map[Server:[garage]]", S3ErrorBody))}

\* ----------------------------------------------------------------- Init

NoArg == [op |-> "", method |-> "", object |-> "", body |-> NilBody]
NoWire == [req |-> NoRequest, pos |-> 0, bytes |-> <<>>]

Init ==
    /\ client = New(Config)
    /\ pc = [p \in Callers |-> "idle"]
    /\ arg = [p \in Callers |-> NoArg]
    /\ body = [p \in Callers |-> NilBody]
    /\ now = [p \in Callers |-> NoTime]
    /\ req = [p \in Callers |-> NoRequest]
    /\ wire = [p \in Callers |-> NoWire]
    /\ out = [p \in Callers |-> DoError(nil)]
    /\ resp = [p \in Callers |-> NoResponse]
    /\ err = [p \in Callers |-> nil]
    /\ reader = [p \in Callers |-> "nil"]
    /\ doCalls = [p \in Callers |-> 0]
    /\ log = {}

\* -------------------------------------------------------------- actions

\* client.Get(ctx, object): buildRequest is called with "GET" and a nil payload.
CallGet(p, objects) ==
    /\ pc[p] = "idle"
    /\ \E object \in objects :
        arg' = [arg EXCEPT ![p] =
                    [op |-> "Get", method |-> "GET", object |-> object, body |-> NilBody]]
    /\ body' = [body EXCEPT ![p] = NilBody]
    /\ pc' = [pc EXCEPT ![p] = "build"]
    /\ UNCHANGED <<client, now, req, wire, out, resp, err, reader, doCalls, log>>

\* client.Put(ctx, object, reader): buildRequest is called with "PUT" and reader.
CallPut(p, objects, bodies) ==
    /\ pc[p] = "idle"
    /\ \E object \in objects, b \in ValidBodies(bodies) :
        /\ arg' = [arg EXCEPT ![p] =
                    [op |-> "Put", method |-> "PUT", object |-> object, body |-> b]]
        /\ body' = [body EXCEPT ![p] = b]
    /\ pc' = [pc EXCEPT ![p] = "build"]
    /\ UNCHANGED <<client, now, req, wire, out, resp, err, reader, doCalls, log>>

\* buildRequest keeping the time of the first signing in the client and
\* signing every later request with it.
BuildRequestCachingTime(p, times) ==
    /\ pc[p] = "build"
    /\ \E t \in times :
        LET used == IF "now" \in DOMAIN client THEN client.now ELSE t
            b == buildRequest(client, arg[p].method, arg[p].object, body[p], used)
        IN
        /\ client' = [f \in DOMAIN client \cup {"now"} |->
                        IF f = "now" THEN used ELSE client[f]]
        /\ now' = [now EXCEPT ![p] = t]
        /\ req' = [req EXCEPT ![p] = b.req]
        /\ body' = [body EXCEPT ![p] = b.body]
        /\ err' = [err EXCEPT ![p] = b.err]
        /\ log' = log \cup b.logged
        /\ pc' = [pc EXCEPT ![p] = IF b.err # nil THEN "done" ELSE "send"]
    /\ UNCHANGED <<arg, wire, out, resp, reader, doCalls>>

\* buildRequest, whole; on an error Get and Put return it at once.
BuildRequest(p, times) ==
    /\ pc[p] = "build"
    /\ \E t \in times :
        LET b == buildRequest(client, arg[p].method, arg[p].object, body[p], t) IN
        /\ now' = [now EXCEPT ![p] = t]
        /\ req' = [req EXCEPT ![p] = b.req]
        /\ body' = [body EXCEPT ![p] = b.body]
        /\ err' = [err EXCEPT ![p] = b.err]
        /\ log' = log \cup b.logged
        /\ pc' = [pc EXCEPT ![p] = IF b.err # nil THEN "done" ELSE "send"]
    /\ UNCHANGED <<client, arg, wire, out, resp, reader, doCalls>>

\* c.client.Do(req): the transport is handed the request, reads its body from
\* where the stream stands, and returns an error or a response.
Do(p, outcomes) ==
    /\ pc[p] = "send"
    /\ LET r == ReadToEOF(body[p]) IN
        /\ wire' = [wire EXCEPT ![p] =
                        [req |-> req[p], pos |-> body[p].pos,
                         bytes |-> IF body[p].isNil THEN <<>> ELSE r.bytes]]
        /\ body' = [body EXCEPT ![p] = IF body[p].isNil THEN body[p] ELSE r.body]
    /\ doCalls' = [doCalls EXCEPT ![p] = @ + 1]
    /\ \E o \in outcomes : out' = [out EXCEPT ![p] = o]
    /\ pc' = [pc EXCEPT ![p] = "recv"]
    /\ UNCHANGED <<client, arg, now, req, resp, err, reader, log>>

\* The rest of sendRequest, and of Get or Put after it.
Return(p, elapsed) ==
    /\ pc[p] = "recv"
    /\ \E e \in elapsed :
        LET sr == sendRequest(req[p], out[p], e)
            r == IF arg[p].op = "Get" THEN GetReturn(sr) ELSE PutReturn(sr)
        IN  /\ resp' = [resp EXCEPT ![p] = r.resp]
            /\ err' = [err EXCEPT ![p] = r.err]
            /\ reader' = [reader EXCEPT ![p] = r.reader]
            /\ log' = log \cup sr.logged
    /\ pc' = [pc EXCEPT ![p] = "done"]
    /\ UNCHANGED <<client, arg, body, now, req, wire, out, doCalls>>

\* One caller, every input.
Next ==
    \/ CallGet(1, ObjectKeys)
    \/ CallPut(1, ObjectKeys, PutBodies)
    \/ BuildRequest(1, Times)
    \/ Do(1, Outcomes)
    \/ Return(1, Elapsed)

Spec == Init /\ [][Next]_vars

\* Every caller at once, on a few inputs.
NextConc ==
    \E p \in Callers :
        \/ CallGet(p, ConcObjectKeys)
        \/ CallPut(p, ConcObjectKeys, ConcPutBodies)
        \/ BuildRequest(p, Times)
        \/ Do(p, ConcOutcomes)
        \/ Return(p, Elapsed)

SpecConc == Init /\ [][NextConc]_vars

\* ------------------------------------------------------------ properties

\* The caller's call has handed a request to the transport.
Sent(p) == doCalls[p] > 0

\* The caller's call got a response with a status outside 200..299.
Failed(p) == pc[p] = "done" /\ Sent(p) /\ out[p].err = nil /\ IsFailure(out[p].resp.status)

\* The caller's call got a response with a status in 200..299.
Succeeded(p) == pc[p] = "done" /\ Sent(p) /\ out[p].err = nil /\ ~IsFailure(out[p].resp.status)

\* What buildRequest returns for the caller's arguments on a fresh client.
BuiltAlone(p) ==
    buildRequest(New(Config), arg[p].method, arg[p].object, arg[p].body, now[p])

\* The bytes of the response body the error parser reads.
ReadOf(p) == LimitRead(out[p].resp.body.data, ReadLimit)

\* C1: in every Put that reaches the transport, the x-amz-content-sha256 header
\* of the sent request is the SHA-256 of the bytes the transport reads from the
\* body, and is the payload hash of the canonical request signed into the
\* Authorization header.
C1_HashIsOfSentBytes ==
    \A p \in Callers :
        (arg[p].op = "Put" /\ Sent(p)) =>
            LET h == HeaderGet(wire[p].req.header, "x-amz-content-sha256") IN
            /\ h = HexEncode(Sha256Sum(Flat(wire[p].bytes)))
            /\ HeaderGet(wire[p].req.header, "Authorization") =
                  signRequest("PUT", client.region, client.host,
                              "/" \o client.bucket \o "/" \o arg[p].object,
                              client.accessKey, client.secretKey, h,
                              now[p])["Authorization"]

\* C2: Get("") and Put("", body) return the error "object cannot be blank", the
\* transport's Do is never called and the caller's body is neither read nor
\* repositioned.
C2_BlankKeyFailsEarly ==
    \A p \in Callers :
        (pc[p] # "idle" /\ arg[p].object = "") =>
            /\ pc[p] \in {"build", "done"}
            /\ doCalls[p] = 0
            /\ body[p] = arg[p].body
            /\ body[p].nReads = 0 /\ body[p].nSeeks = 0
            /\ pc[p] = "done" => (err[p] = BlankError /\ reader[p] = "nil")

\* A Put with a blank key and a body in mid-stream has returned.
C2_Witness ==
    \E p \in Callers :
        /\ pc[p] = "done" /\ arg[p].op = "Put" /\ arg[p].object = ""
        /\ ~arg[p].body.isNil /\ arg[p].body.pos = 1 /\ err[p] = BlankError

\* C3 as stated: on any response with a status outside 200..299 the returned
\* error includes the response headers, whether or not the body parses.
C3_HeadersInEveryError ==
    \A p \in Callers : Failed(p) => Contains(err[p], out[p].resp.header)

\* C3 as the code has it: on a response with a status outside 200..299 the
\* returned error includes the response headers exactly when the body
\* unmarshals as XML; the generic http error carries the status and the body
\* text and no headers.
C3_HeadersOnlyInS3Error ==
    \A p \in Callers :
        Failed(p) =>
            /\ Contains(err[p], out[p].resp.header) <=> xmlUnmarshal(ReadOf(p)).ok
            /\ ~xmlUnmarshal(ReadOf(p)).ok =>
                  err[p] = <<"http error, status: ", Itoa(out[p].resp.status),
                             ", body: ", BodyString(ReadOf(p))>>

\* A failed call whose error is the generic one, without the headers.
C3_Witness ==
    \E p \in Callers :
        /\ Failed(p) /\ out[p].resp.header = "map[Server:[garage]]"
        /\ err[p][1] = "http error, status: "
        /\ ~Contains(err[p], out[p].resp.header)

\* The provider's error document: an <Error> element, closed, whose children
\* are leaf elements.
IsProviderError(toks) ==
    /\ toks # <<>>
    /\ Head(toks) = Open("Error")
    /\ \E i \in 2..Len(toks) :
        /\ toks[i] = Close("Error")
        /\ \A j \in 2..(i - 1) : toks[j].k \in {"elem", "text"}

\* The text of the child <name> of a provider error document.
ChildText(toks, name) ==
    LET is == {i \in DOMAIN toks : toks[i].k = "elem" /\ toks[i].name = name}
    IN  IF is = {} THEN "" ELSE toks[CHOOSE i \in is : \A j \in is : j <= i].text

\* C4: on a response with a status outside 200..299, when the first 4096 bytes
\* of the body are the provider's error document the error holds its code and
\* request id, and when they are not (an empty body, XML of another shape) the
\* error is the generic http error with the status and the truncated body.
C4_ErrorFollowsBodyShape ==
    \A p \in Callers :
        Failed(p) =>
            IF IsProviderError(ReadOf(p))
            THEN /\ Contains(err[p], ChildText(ReadOf(p), "Code"))
                 /\ Contains(err[p], ChildText(ReadOf(p), "RequestId"))
            ELSE err[p] = <<"http error, status: ", Itoa(out[p].resp.status),
                            ", body: ", BodyString(ReadOf(p))>>

\* C5: on a 2xx response Get returns the body open and unread and Put has
\* closed it once; on any other response both have closed it once and Get
\* returns no reader; Get returns a reader exactly when it returns no error.
C5_BodyOwnership ==
    \A p \in Callers :
        /\ (Succeeded(p) /\ arg[p].op = "Get") =>
              /\ reader[p] = "resp.Body" /\ err[p] = nil
              /\ resp[p].body = [data |-> out[p].resp.body.data, nread |-> 0, closes |-> 0]
        /\ (Succeeded(p) /\ arg[p].op = "Put") =>
              /\ err[p] = nil /\ resp[p].body.closes = 1
        /\ Failed(p) =>
              /\ resp[p].body.closes = 1 /\ reader[p] = "nil" /\ err[p] # nil
        /\ pc[p] # "done" => resp[p].body.closes = 0
        /\ (pc[p] = "done" /\ arg[p].op = "Get") => (reader[p] # "nil" <=> err[p] = nil)

\* A Get answered 2xx has returned its reader, and the body is as it arrived.
C5_Witness ==
    \E p \in Callers :
        /\ Succeeded(p) /\ arg[p].op = "Get" /\ reader[p] = "resp.Body"
        /\ resp[p].body.data = <<Text("test content")>> /\ resp[p].body.nread = 0

\* C6: a call whose request was built calls Do exactly once whatever comes
\* back; when Do fails the returned error wraps the cause and names the URL,
\* and no response body is touched.
C6_OneRoundTrip ==
    \A p \in Callers :
        /\ doCalls[p] <= 1
        /\ (pc[p] \in {"recv", "done"} /\ BuiltAlone(p).err = nil) => doCalls[p] = 1
        /\ (pc[p] = "done" /\ Sent(p) /\ out[p].err # nil) =>
              /\ Wraps(err[p], out[p].err)
              /\ Contains(err[p], Quote(wire[p].req.url))
              /\ resp[p] = NoResponse

\* A call whose transport failed has returned.
C6_Witness ==
    \E p \in Callers :
        /\ pc[p] = "done" /\ doCalls[p] = 1 /\ out[p].err = TransportError
        /\ err[p] # nil

\* C7: in every Put with a body that reaches the transport the body was read
\* to its end once and repositioned once before Do, the stream stands at
\* offset 0 when Do is called, and the declared content length is the number
\* of bytes the hasher read.
C7_BodyRewoundBeforeSend ==
    \A p \in Callers :
        (arg[p].op = "Put" /\ ~arg[p].body.isNil) =>
            /\ pc[p] = "send" =>
                  /\ body[p].pos = 0 /\ body[p].nReads = 1 /\ body[p].nSeeks = 1
            /\ Sent(p) =>
                  /\ wire[p].pos = 0
                  /\ wire[p].req.contentLength = Len(arg[p].body.data) - arg[p].body.pos

\* A Put whose body stood past its start has been handed to the transport.
C7_Witness ==
    \E p \in Callers :
        /\ arg[p].op = "Put" /\ Sent(p) /\ arg[p].body.pos = 1
        /\ Len(arg[p].body.data) = 2 /\ wire[p].req.contentLength = 1

\* The caller's request and outcome are those of its call run by itself on a
\* fresh client.
RanAlone(p) ==
    LET b == BuiltAlone(p) IN
    /\ req[p] = b.req
    /\ IF b.err # nil
       THEN /\ err[p] = b.err /\ doCalls[p] = 0
            /\ reader[p] = "nil" /\ resp[p] = NoResponse
       ELSE LET sr == sendRequest(b.req, out[p], "3ms")
                r == IF arg[p].op = "Get" THEN GetReturn(sr) ELSE PutReturn(sr)
            IN  /\ doCalls[p] = 1 /\ wire[p].req = b.req
                /\ err[p] = r.err /\ reader[p] = r.reader /\ resp[p] = r.resp

\* C8: under any interleaving of concurrent calls the client's fields are
\* never written, and each call's request and outcome are those of the call
\* run alone.
C8_NoSharedState ==
    /\ [][client' = client]_vars
    /\ [](\A p \in Callers : pc[p] = "done" => RanAlone(p))

\* Two callers have returned from calls at different times of day, one a Get
\* and one a Put, both through the transport.
C8_Witness ==
    \E p, q \in Callers :
        /\ pc[p] = "done" /\ pc[q] = "done"
        /\ arg[p].op = "Get" /\ arg[q].op = "Put"
        /\ doCalls[p] = 1 /\ doCalls[q] = 1
        /\ now[p] # now[q]

\* C9: no value passed to the logger is the secret key, nor is any header of
\* a sent request or any part of a returned error; the access key may be
\* logged.
C9_SecretNeverLogged ==
    /\ \A e \in log : e.val # client.secretKey
    /\ \A p \in Callers :
        /\ \A k \in DOMAIN wire[p].req.header : wire[p].req.header[k] # client.secretKey
        /\ ~Contains(err[p], client.secretKey)

\* The access key is in the log after a call that succeeded and one that failed.
C9_Witness ==
    /\ \E e \in log : e.key = "access_key" /\ e.val = client.accessKey
    /\ \E e \in log : e.msg = "received response"
    /\ \E p \in Callers : pc[p] = "done" /\ err[p] # nil

\* C10: when reading the Put body for hashing fails, or repositioning it fails,
\* Put returns the hash error or the seek error, and Do is never called.
C10_StreamErrorsStopPut ==
    \A p \in Callers :
        (/\ arg[p].op = "Put" /\ ~arg[p].body.isNil
         /\ arg[p].object \notin ({""} \cup InvalidURLObjects)
         /\ (arg[p].body.failRead \/ arg[p].body.failSeek)) =>
            /\ pc[p] \in {"build", "done"}
            /\ doCalls[p] = 0 /\ wire[p] = NoWire
            /\ pc[p] = "done" =>
                  err[p] = IF arg[p].body.failRead
                           THEN <<"failed to hash body", ": ">> \o ReadError
                           ELSE <<"failed to seek body", ": ">> \o SeekError

\* A Put whose body read to its end but would not reposition has returned.
C10_Witness ==
    \E p \in Callers :
        /\ pc[p] = "done" /\ arg[p].op = "Put" /\ arg[p].body.failSeek
        /\ ~arg[p].body.failRead /\ body[p].nReads = 1
        /\ Contains(err[p], "failed to seek body")

====
